---- MODULE Spec2Model ----
(***************************************************************************)
(* Huron BigTIFF support of OpenSlide (openslide-vendor-huron.c).          *)
(*                                                                         *)
(* The model follows one call of huron_open on one file: the acquisition   *)
(* of the TIFF handle, the do/while scan over the directories, the sort of *)
(* the level array, the hash/property extraction and the store into the    *)
(* openslide_t object, with the FAIL epilogue on every error path.         *)
(***************************************************************************)
EXTENDS Integers, Sequences, FiniteSets, TLC

(***************************************************************************)
(* Bounds of the model.                                                    *)
(***************************************************************************)
MaxDirs == 3
MaxWidth == 2

(***************************************************************************)
(* Optional values: a TIFF tag that is absent, a pointer that is NULL.     *)
(***************************************************************************)
None == <<>>
Some(x) == <<x>>

\* TIFFGetField: true iff the tag is set in the current directory
TIFFGetField(tagvalue) == tagvalue # None

\* the value TIFFGetField stores through its out-pointer
FieldValue(tagvalue) == tagvalue[1]

(***************************************************************************)
(* Strings are sequences of characters.                                    *)
(***************************************************************************)
LABEL_DESCRIPTION == <<"l", "a", "b", "e", "l">>
MACRO_DESCRIPTION == <<"m", "a", "c", "r", "o">>

IsSpace(c) == c \in {" ", "\t", "\n"}

RECURSIVE g_strchug(_)
g_strchug(s) ==
  IF s # <<>> /\ IsSpace(Head(s)) THEN g_strchug(Tail(s)) ELSE s

RECURSIVE g_strchomp(_)
g_strchomp(s) ==
  IF s # <<>> /\ IsSpace(s[Len(s)])
  THEN g_strchomp(SubSeq(s, 1, Len(s) - 1))
  ELSE s

\* g_strstrip: removes leading and trailing whitespace
g_strstrip(s) == g_strchomp(g_strchug(s))

g_str_has_prefix(s, prefix) ==
  /\ Len(s) >= Len(prefix)
  /\ SubSeq(s, 1, Len(prefix)) = prefix

(***************************************************************************)
(* The file: a sequence of TIFF directories, directory 0 first.  A tag is  *)
(* None when the directory does not carry it.  initOk is the result of     *)
(* _openslide_tiff_level_init on the directory and addOk the result of     *)
(* _openslide_tiff_add_associated_image on it.                             *)
(***************************************************************************)
Dir(tiled, sub, w, h, rps, desc, comp, initOk, addOk) ==
  [tiled |-> tiled, subfiletype |-> sub, imagewidth |-> w, imagelength |-> h,
   rowsperstrip |-> rps, imagedescription |-> desc, compression |-> comp,
   initOk |-> initOk, addOk |-> addOk]

LabelText == <<" ">> \o LABEL_DESCRIPTION \o <<" ", "-", " ">>
MacroText == MACRO_DESCRIPTION \o <<"\n">>
OtherText == <<"x">> \o LABEL_DESCRIPTION

\* compression schemes: 7 is JPEG, 34712 is JPEG 2000
ConfiguredCodecs == {1, 5, 7}
Compressions == {None, Some(7), Some(34712)}

\* tiled directories: a level of width 1..MaxWidth, or one defect
TiledDirs ==
  { d \in { Dir(TRUE, s, Some(w), Some(1), None, None, c, i, TRUE) :
              s \in {None, Some(0), Some(1)}, w \in 1..MaxWidth,
              c \in Compressions, i \in BOOLEAN } :
      /\ d.imagewidth # Some(1) =>
            (d.compression = Some(7) /\ d.initOk /\ d.subfiletype # None)
      /\ ~d.initOk => (d.compression = Some(7) /\ d.subfiletype = Some(0))
      /\ d.subfiletype = None => d.compression # None
      /\ d.subfiletype = Some(1) =>
            (d.compression = Some(7) /\ d.initOk /\ d.imagewidth = Some(1)) }

Dimensions == {None, Some(0), Some(1)}
RowsPerStrips == {None, Some(1), Some(2)}
Descriptions == {None, Some(LabelText), Some(MacroText), Some(OtherText)}

GoodGeometry(d) ==
  /\ d.imagewidth = Some(1)
  /\ d.imagelength = Some(1)
  /\ d.rowsperstrip = Some(1)

OneDefect(d) ==
  Cardinality({ f \in {"imagewidth", "imagelength", "rowsperstrip"} :
                  d[f] # Some(1) }) = 1

\* non-tiled (stripped) directories
StripDirs ==
  { d \in { Dir(FALSE, s, w, h, r, t, Some(7), TRUE, a) :
              s \in {None, Some(0), Some(1)}, w \in Dimensions,
              h \in Dimensions, r \in RowsPerStrips, t \in Descriptions,
              a \in BOOLEAN } :
      \/ /\ GoodGeometry(d)
         /\ d.subfiletype = Some(0)
         /\ d.addOk
      \/ /\ GoodGeometry(d)
         /\ d.subfiletype = Some(1)
         /\ d.imagedescription = Some(LabelText)
         /\ d.addOk
      \/ /\ GoodGeometry(d)
         /\ d.imagedescription = Some(LabelText)
         /\ d.subfiletype = None <=> d.addOk
      \/ /\ GoodGeometry(d)
         /\ d.imagedescription = None
         /\ d.subfiletype = None
         /\ d.addOk
      \/ /\ OneDefect(d)
         /\ d.subfiletype = Some(0)
         /\ d.imagedescription \in {None, Some(LabelText)}
         /\ d.imagedescription = None => d.rowsperstrip = None
         /\ d.addOk
      \/ /\ OneDefect(d)
         /\ d.subfiletype = None
         /\ d.rowsperstrip = None
         /\ d.imagedescription = None
         /\ d.addOk }

Directories == TiledDirs \cup StripDirs

\* huron_open is called on the files that huron_detect accepts: those
\* whose directory 0 is tiled
Files ==
  { f \in UNION { [1..n -> Directories] : n \in 1..MaxDirs } : f[1].tiled }

(***************************************************************************)
(* The tifflike view of the file (argument tl): per directory, what        *)
(* _openslide_tifflike_get_uint / _get_float return for a tag: a value, or *)
(* the error OPENSLIDE_ERROR_NO_VALUE (tag absent), or another error.      *)
(***************************************************************************)
RESUNIT_INCH == 2
RESUNIT_CENTIMETER == 3

Value(v) == [err |-> "none", val |-> v]
NoValue == [err |-> "NO_VALUE", val |-> 0]
Failed == [err |-> "FAILED", val |-> 0]

TlTags(unit, xres) == [RESOLUTIONUNIT |-> unit, XRESOLUTION |-> xres]

\* the tags of directory 0
TlTags0 ==
  { TlTags(u, Value(500)) :
      u \in {NoValue, Failed, Value(RESUNIT_INCH), Value(RESUNIT_CENTIMETER)} }
  \cup { TlTags(Value(RESUNIT_CENTIMETER), x) : x \in {Failed, Value(250)} }

\* the tags of the later directories
TlTagsN == { TlTags(Value(RESUNIT_CENTIMETER), Value(250)) }

\* tl for a file of n directories, as a function of the directory number;
\* the directories after the first carry the same resolution tags
Tifflikes(n) ==
  { [d \in 0..(n - 1) |-> IF d = 0 THEN t0 ELSE tn] :
      t0 \in TlTags0, tn \in TlTagsN }

(***************************************************************************)
(* width_compare: the comparison function of the sort, on two levels.      *)
(***************************************************************************)
width_compare_ascending(la, lb) ==
  IF la.image_w > lb.image_w THEN 1
  ELSE IF la.image_w = lb.image_w THEN 0
  ELSE -1

width_compare(la, lb) ==
  IF la.image_w > lb.image_w THEN -1
  ELSE IF la.image_w = lb.image_w THEN 0
  ELSE 1

\* g_ptr_array_sort(array, width_compare): a merge sort, stable
RECURSIVE Merge(_, _)
Merge(a, b) ==
  IF a = <<>> THEN b
  ELSE IF b = <<>> THEN a
  ELSE IF width_compare(Head(a), Head(b)) <= 0
       THEN <<Head(a)>> \o Merge(Tail(a), b)
       ELSE <<Head(b)>> \o Merge(a, Tail(b))

RECURSIVE g_ptr_array_sort(_)
g_ptr_array_sort(array) ==
  IF Len(array) <= 1 THEN array
  ELSE LET n1 == Len(array) \div 2
       IN  Merge(g_ptr_array_sort(SubSeq(array, 1, n1)),
                 g_ptr_array_sort(SubSeq(array, n1 + 1, Len(array))))

(***************************************************************************)
(* huron_set_resolution_prop and huron_set_props, on the property table.   *)
(***************************************************************************)
OPENSLIDE_PROPERTY_NAME_MPP_X == "openslide.mpp-x"

\* g_hash_table_insert
Insert(table, key, value) == (key :> value) @@ table

\* 10000.0 / res, exact for the resolutions of TlTags0 and TlTagsN
MppOf(res) == 10000 \div res

\* _openslide_tifflike_get_uint / _get_float: the tag of a directory of
\* tl, an error for a directory tl does not have
tifflike_get(t, dir, tag) ==
  IF dir \in DOMAIN t THEN t[dir][tag] ELSE Failed

\* a missing unit tag defaults to centimeters instead of inches
huron_set_resolution_prop_cm_default(properties, t, dir, tag, property_name) ==
  LET unit == tifflike_get(t, dir, "RESOLUTIONUNIT")
      res == tifflike_get(t, dir, tag)
  IN  IF unit.err = "FAILED" THEN properties
      ELSE IF res.err = "none"
                /\ (unit.err = "NO_VALUE" \/ unit.val = RESUNIT_CENTIMETER)
           THEN Insert(properties, property_name, MppOf(res.val))
           ELSE properties

huron_set_resolution_prop(properties, t, dir, tag, property_name) ==
  LET got == tifflike_get(t, dir, "RESOLUTIONUNIT")
      unit == IF got.err = "NO_VALUE" THEN RESUNIT_INCH ELSE got.val
      res == tifflike_get(t, dir, tag)
  IN  IF got.err \notin {"none", "NO_VALUE"} THEN properties
      ELSE IF res.err = "none" /\ unit = RESUNIT_CENTIMETER
           THEN Insert(properties, property_name, MppOf(res.val))
           ELSE properties

huron_set_props(properties, t, dir) ==
  huron_set_resolution_prop(properties, t, dir, "XRESOLUTION",
                            OPENSLIDE_PROPERTY_NAME_MPP_X)

\* the directory huron_open hands to huron_set_props, given the directory
\* of the last level of the sorted array
props_dir_top_level(top_level_dir) == top_level_dir

props_dir(top_level_dir) == 0

(***************************************************************************)
(* The body of the scan loop on directory number dir with tags d.  The     *)
(* result names how the iteration ends (continue, goto FAIL, or the level  *)
(* appended to the array) and the name passed to                           *)
(* _openslide_tiff_add_associated_image, if it was called.                 *)
(***************************************************************************)
Continue == [next |-> "continue", name |-> None, level |-> None]
GotoFail == [next |-> "FAIL", name |-> None, level |-> None]
AddLevel(l) == [next |-> "add", name |-> None, level |-> Some(l)]
AddAssociated(name, ok) ==
  [next |-> IF ok THEN "continue" ELSE "FAIL", name |-> Some(name),
   level |-> None]

TIFFIsCODECConfigured(compression) == compression \in ConfiguredCodecs

\* the name chosen for a non-tiled directory: label is tried first
associated_name_label_first(dir, subfiletype, image_desc) ==
  IF g_str_has_prefix(image_desc, LABEL_DESCRIPTION) THEN Some("label")
  ELSE IF dir = 1 /\ subfiletype = 0 THEN Some("thumbnail")
  ELSE IF g_str_has_prefix(image_desc, MACRO_DESCRIPTION) THEN Some("macro")
  ELSE None

associated_name(dir, subfiletype, image_desc) ==
  IF dir = 1 /\ subfiletype = 0 THEN Some("thumbnail")
  ELSE IF g_str_has_prefix(image_desc, LABEL_DESCRIPTION) THEN Some("label")
  ELSE IF g_str_has_prefix(image_desc, MACRO_DESCRIPTION) THEN Some("macro")
  ELSE None

\* the thumbnail rule is applied before the description is read
non_tiled_thumbnail_early(d, dir) ==
  IF \/ ~TIFFGetField(d.imagewidth)
     \/ ~TIFFGetField(d.imagelength)
     \/ ~TIFFGetField(d.rowsperstrip)
  THEN GotoFail
  ELSE IF \/ FieldValue(d.rowsperstrip) # 1
          \/ FieldValue(d.imagewidth) <= 0
          \/ FieldValue(d.imagelength) <= 0
  THEN Continue
  ELSE IF dir = 1 /\ FieldValue(d.subfiletype) = 0
  THEN AddAssociated("thumbnail", d.addOk)
  ELSE IF ~TIFFGetField(d.imagedescription)
  THEN Continue
  ELSE LET name == associated_name(dir, FieldValue(d.subfiletype),
                                   g_strstrip(FieldValue(d.imagedescription)))
       IN  IF name = None THEN Continue
           ELSE AddAssociated(FieldValue(name), d.addOk)

\* rows-per-strip other than 1, or an empty image, is taken as an error
non_tiled_strict_geometry(d, dir) ==
  IF \/ ~TIFFGetField(d.imagewidth)
     \/ ~TIFFGetField(d.imagelength)
     \/ ~TIFFGetField(d.rowsperstrip)
  THEN GotoFail
  ELSE IF \/ FieldValue(d.rowsperstrip) # 1
          \/ FieldValue(d.imagewidth) <= 0
          \/ FieldValue(d.imagelength) <= 0
  THEN GotoFail
  ELSE IF ~TIFFGetField(d.imagedescription)
  THEN Continue
  ELSE LET name == associated_name(dir, FieldValue(d.subfiletype),
                                   g_strstrip(FieldValue(d.imagedescription)))
       IN  IF name = None THEN Continue
           ELSE AddAssociated(FieldValue(name), d.addOk)

non_tiled(d, dir) ==
  IF \/ ~TIFFGetField(d.imagewidth)
     \/ ~TIFFGetField(d.imagelength)
     \/ ~TIFFGetField(d.rowsperstrip)
  THEN GotoFail
  ELSE IF \/ FieldValue(d.rowsperstrip) # 1
          \/ FieldValue(d.imagewidth) <= 0
          \/ FieldValue(d.imagelength) <= 0
  THEN Continue
  ELSE IF ~TIFFGetField(d.imagedescription)
  THEN Continue
  ELSE LET name == associated_name(dir, FieldValue(d.subfiletype),
                                   g_strstrip(FieldValue(d.imagedescription)))
       IN  IF name = None THEN Continue
           ELSE AddAssociated(FieldValue(name), d.addOk)

\* the struct level that _openslide_tiff_level_init fills in
Level(d, dir) == [dir |-> dir, image_w |-> FieldValue(d.imagewidth)]

\* a directory whose geometry cannot be initialised is passed over
tiled_skip_init_failure(d, dir) ==
  IF ~TIFFGetField(d.compression) THEN GotoFail
  ELSE IF ~TIFFIsCODECConfigured(FieldValue(d.compression)) THEN GotoFail
  ELSE IF ~d.initOk THEN Continue
  ELSE AddLevel(Level(d, dir))

\* a directory whose compression cannot be read or decoded is passed over
tiled_skip_unreadable(d, dir) ==
  IF ~TIFFGetField(d.compression) THEN Continue
  ELSE IF ~TIFFIsCODECConfigured(FieldValue(d.compression)) THEN Continue
  ELSE IF ~d.initOk THEN GotoFail
  ELSE AddLevel(Level(d, dir))

tiled(d, dir) ==
  IF ~TIFFGetField(d.compression) THEN GotoFail
  ELSE IF ~TIFFIsCODECConfigured(FieldValue(d.compression)) THEN GotoFail
  ELSE IF ~d.initOk THEN GotoFail
  ELSE AddLevel(Level(d, dir))

\* the TIFFIsTiled test is missing: every directory is taken as tiled
loop_body_no_tiled_test(d, dir) ==
  IF ~TIFFGetField(d.subfiletype) THEN Continue
  ELSE tiled(d, dir)

loop_body(d, dir) ==
  IF ~TIFFGetField(d.subfiletype) THEN Continue
  ELSE IF ~d.tiled THEN non_tiled(d, dir)
  ELSE tiled(d, dir)

(***************************************************************************)
(* State of one call huron_open(osr, filename, tl, quickhash1, err).       *)
(***************************************************************************)
VARIABLES
  file,               \* the directories of the file (file[dir + 1])
  tl,                 \* the tifflike tags; None until tl is first read
  pc,                 \* position in huron_open, or how it ended
  cur,                \* TIFFCurrentDirectory(tiff)
  tiff,               \* the handle from _openslide_tiffcache_get, or None
  tc,                 \* the tiffcache and its handle traffic
  level_array,        \* Some(the GPtrArray's elements), or None
  heap,               \* struct level, grid and private-data allocations
  osr,                \* levels, level_count, data, ops of the openslide_t
  associated_images,  \* osr->associated_images: name -> directory
  properties,         \* osr->properties
  hash_dir,           \* Some(directory given to the hash extractor)
  err,                \* whether *err is set
  calls,              \* <<name, dir>> of each registrar call, in order
  added,              \* every level ever appended to the array, in order
  oob,                \* pdata[len - 1] was read with len = 0
  visited,            \* directories the loop body ran on, in order
  det,                \* huron_detect: its tl argument, result and *err
  tile_cache,         \* osr->cache: tile key -> buffer of the entry
  bufs,               \* tile buffers: contents, references, freed or not
  th,                 \* each host thread's position in paint_region
  started,            \* number of paint_region calls started so far
  painted             \* what cairo_paint drew, per read_tile call

vars ==
  <<file, tl, pc, cur, tiff, tc, level_array, heap, osr, associated_images,
    properties, hash_dir, err, calls, added, oob, visited,
    det, tile_cache, bufs, th, started, painted>>

\* the state huron_detect works on, and the state paint_region works on
detect_vars == <<det>>
paint_vars == <<tile_cache, bufs, th, started, painted>>

EmptyTable == [k \in {} |-> 0]

\* the host threads that call paint_region on the opened image
Threads == {"t1", "t2"}

\* a thread that is not inside paint_region and has not been in it
IdleThread ==
  [pc |-> "idle", id |-> 0, key |-> None, buf |-> None, hit |-> FALSE,
   tiff |-> None, got |-> 0, put |-> 0, acquired |-> 0, released |-> 0,
   decodes |-> 0, clips |-> 0, ok |-> FALSE, result |-> "none",
   err |-> FALSE]

\* huron_detect has not been called
NotDetected == det = [tl |-> None, result |-> "none", err |-> FALSE]

\* no paint_region call has been made on the image
NotPainted ==
  /\ tile_cache = EmptyTable
  /\ bufs = EmptyTable
  /\ th = [t \in Threads |-> IdleThread]
  /\ started = 0
  /\ painted = {}

\* the state before huron_open(osr, filename, tl, quickhash1, err) runs
BeforeOpen ==
  /\ tl = None
  /\ pc = "open"
  /\ cur = 0
  /\ tiff = None
  /\ tc = [state |-> "none", out |-> 0, null_puts |-> 0]
  /\ level_array = None
  /\ heap = {}
  /\ osr = [levels |-> None, level_count |-> 0, data |-> None, ops |-> None]
  /\ associated_images = EmptyTable
  /\ properties = EmptyTable
  /\ hash_dir = None
  /\ err = FALSE
  /\ calls = <<>>
  /\ added = <<>>
  /\ oob = FALSE
  /\ visited = <<>>

Init ==
  /\ file \in Files
  /\ BeforeOpen
  /\ NotDetected
  /\ NotPainted

\* _openslide_tiffcache_get as seen from huron_open: a handle or NULL
tiffcache_get(cache, ok) ==
  IF ok THEN [cache EXCEPT !.out = @ + 1] ELSE cache

\* _openslide_tiffcache_put(tc, tiff)
tiffcache_put(cache, handle) ==
  IF handle = None THEN [cache EXCEPT !.null_puts = @ + 1]
  ELSE [cache EXCEPT !.out = @ - 1]

\* _openslide_tiffcache_destroy(tc)
tiffcache_destroy(cache) == [cache EXCEPT !.state = "destroyed"]

\* the allocations behind the levels of an array
LevelObjects(array) ==
  UNION { {<<"level", array[n].dir>>, <<"grid", array[n].dir>>} :
            n \in 1..Len(array) }

\* the FAIL epilogue: free the level array, put the handle, destroy tc
Fail ==
  /\ heap' = IF level_array # None
             THEN heap \ (LevelObjects(FieldValue(level_array))
                            \cup {<<"level_array">>})
             ELSE heap
  /\ level_array' = None
  /\ tc' = tiffcache_destroy(tiffcache_put(tc, tiff))
  /\ tiff' = None
  /\ pc' = "returned_false"

\* lines 265-272: new level array, create the tiffcache, get a handle
Open ==
  /\ pc = "open"
  /\ \E ok \in BOOLEAN :
       LET created == [tc EXCEPT !.state = "live"]
       IN  IF ok
           THEN /\ tc' = tiffcache_get(created, TRUE)
                /\ tiff' = Some("tiff")
                /\ level_array' = Some(<<>>)
                /\ heap' = heap \cup {<<"level_array">>}
                /\ pc' = "scan"
                /\ err' = FALSE
           ELSE /\ tc' = tiffcache_destroy(tiffcache_put(created, None))
                /\ tiff' = None
                /\ level_array' = None
                /\ heap' = heap
                /\ pc' = "returned_false"
                /\ err' = TRUE
  /\ UNCHANGED <<file, tl, cur, osr, associated_images, properties, hash_dir,
                 calls, added, oob, visited, detect_vars, paint_vars>>

\* a skipped directory is examined again instead of being left
next_directory_skip_stays(out, dir, n) ==
  IF out = Continue THEN [cur |-> dir, pc |-> "scan"]
  ELSE IF dir + 1 < n THEN [cur |-> dir + 1, pc |-> "scan"]
  ELSE [cur |-> dir, pc |-> "finish"]

\* the loop condition at line 360, where `continue` and the end of the body
\* arrive: TIFFReadDirectory moves to the next directory of the n, or
\* returns false after the last one
next_directory(out, dir, n) ==
  IF dir + 1 < n THEN [cur |-> dir + 1, pc |-> "scan"]
  ELSE [cur |-> dir, pc |-> "finish"]

\* lines 275-360: one iteration of the do/while loop, with its condition
ScanDirectory ==
  /\ pc = "scan"
  /\ LET d == file[cur + 1]
         out == loop_body(d, cur)
         registered == out.name # None /\ out.next = "continue"
     IN  /\ visited' = Append(visited, cur)
         /\ calls' = IF out.name # None
                     THEN Append(calls, <<FieldValue(out.name), cur>>)
                     ELSE calls
         /\ associated_images' =
              IF registered
              THEN Insert(associated_images, FieldValue(out.name), cur)
              ELSE associated_images
         /\ IF out.next = "FAIL"
            THEN /\ Fail
                 /\ err' = TRUE
                 /\ UNCHANGED <<cur, added>>
            ELSE /\ level_array' =
                      IF out.next = "add"
                      THEN Some(Append(FieldValue(level_array),
                                       FieldValue(out.level)))
                      ELSE level_array
                 /\ added' = IF out.next = "add"
                             THEN Append(added, FieldValue(out.level))
                             ELSE added
                 /\ heap' = IF out.next = "add"
                            THEN heap \cup {<<"level", cur>>, <<"grid", cur>>}
                            ELSE heap
                 /\ cur' = next_directory(out, cur, Len(file)).cur
                 /\ pc' = next_directory(out, cur, Len(file)).pc
                 /\ UNCHANGED <<tiff, tc, err>>
  /\ UNCHANGED <<file, tl, osr, properties, hash_dir, oob, detect_vars,
                 paint_vars>>

\* what top_level->tiffl.dir evaluates to at lines 366-368: the directory
\* of the last level, or, for an empty array, a read outside the array
\* that traps (None) or yields an arbitrary directory number
TopLevelDirs(sorted) ==
  IF Len(sorted) > 0
  THEN {Some(sorted[Len(sorted)].dir)}
  ELSE {None} \cup {Some(g) : g \in (-1)..Len(file)}

\* lines 362-398: sort, hash and properties, store into osr
Finish ==
  /\ pc = "finish"
  /\ LET sorted == g_ptr_array_sort(FieldValue(level_array))
     IN  \E top \in TopLevelDirs(sorted) :
           /\ oob' = (Len(sorted) = 0)
           /\ IF top = None
              THEN /\ pc' = "crashed"
                   /\ UNCHANGED <<tl, tiff, tc, level_array, heap, osr,
                                  properties, hash_dir, err>>
              ELSE /\ hash_dir' = top
                   /\ \/ /\ Fail
                         /\ err' = TRUE
                         /\ UNCHANGED <<tl, osr, properties>>
                      \/ \E t \in Tifflikes(Len(file)) :
                           /\ tl' = Some(t)
                           /\ level_array' = None
                           /\ heap' = heap \cup {<<"data">>}
                           /\ osr' = [levels |-> Some(sorted),
                                      level_count |-> Len(sorted),
                                      data |-> Some("data"),
                                      ops |-> Some("huron_ops")]
                           /\ tc' = tiffcache_put(tc, tiff)
                           /\ tiff' = None
                           /\ properties' =
                                huron_set_props(properties, t,
                                                props_dir(FieldValue(top)))
                           /\ pc' = "returned_true"
                           /\ UNCHANGED err
  /\ UNCHANGED <<file, cur, associated_images, calls, added, visited,
                 detect_vars, paint_vars>>

Next == Open \/ ScanDirectory \/ Finish

Spec == Init /\ [][Next]_vars

(***************************************************************************)
(* huron_detect.                                                           *)
(***************************************************************************)
HURON_MAKER == <<"H", "u", "r", "o", "n">>
HURON_MODEL == <<"L", "E">>

\* the Make tags and the Model tags of directory 0 that are tried
Makers ==
  { None, Some(<<>>), Some(HURON_MAKER), Some(HURON_MAKER \o <<" ", "D">>),
    Some(<<"H", "u">>), Some(<<"A">>) }
Models ==
  { None, Some(<<>>), Some(HURON_MODEL), Some(HURON_MODEL \o <<"1">>),
    Some(<<"T">>) }

\* the tl argument: NULL, or what the tifflike says of directory 0
DetectInputs ==
  { None } \cup
  { Some([tiled |-> b, make |-> mk, model |-> md]) :
      b \in BOOLEAN, mk \in Makers, md \in Models }

\* _openslide_tifflike_get_buffer(tl, 0, tag, err) on an optional string tag
get_buffer(tag) ==
  IF tag = None THEN Failed ELSE Value(FieldValue(tag))

\* the code after line 182 made live: Make and Model have to match
huron_detect_vendor_checked(t) ==
  IF t = None THEN [result |-> FALSE, err |-> TRUE]
  ELSE IF ~FieldValue(t).tiled THEN [result |-> FALSE, err |-> TRUE]
  ELSE IF get_buffer(FieldValue(t).make) = Failed
  THEN [result |-> FALSE, err |-> TRUE]
  ELSE IF ~g_str_has_prefix(get_buffer(FieldValue(t).make).val, HURON_MAKER)
  THEN [result |-> FALSE, err |-> TRUE]
  ELSE IF get_buffer(FieldValue(t).model) = Failed
  THEN [result |-> FALSE, err |-> TRUE]
  ELSE IF ~g_str_has_prefix(get_buffer(FieldValue(t).model).val, HURON_MODEL)
  THEN [result |-> FALSE, err |-> TRUE]
  ELSE [result |-> TRUE, err |-> FALSE]

\* lines 165-182: not a TIFF, not tiled, or accepted; the rest is not reached
huron_detect(t) ==
  IF t = None THEN [result |-> FALSE, err |-> TRUE]
  ELSE IF ~FieldValue(t).tiled THEN [result |-> FALSE, err |-> TRUE]
  ELSE [result |-> TRUE, err |-> FALSE]

InitDetect ==
  /\ file = <<>>
  /\ BeforeOpen
  /\ det \in [tl : DetectInputs, result : {"none"}, err : {FALSE}]
  /\ NotPainted

\* one call of huron_detect(filename, tl, err)
Detect ==
  /\ det.result = "none"
  /\ det' = [det EXCEPT
               !.result = IF huron_detect(det.tl).result
                          THEN "true" ELSE "false",
               !.err = huron_detect(det.tl).err]
  /\ UNCHANGED <<file, tl, pc, cur, tiff, tc, level_array, heap, osr,
                 associated_images, properties, hash_dir, err, calls, added,
                 oob, visited, paint_vars>>

NextDetect == Detect

SpecDetect == InitDetect /\ [][NextDetect]_vars

(***************************************************************************)
(* paint_region and read_tile, called by the host threads on an image that *)
(* huron_open has opened.  The grid asks read_tile for one tile per call.  *)
(***************************************************************************)
MaxCalls == 2

\* tiffl->tile_w as read at line 91
tile_w(l) == 2

tiles_across(l) == (l.image_w + tile_w(l) - 1) \div tile_w(l)

\* the (level, tile_col, tile_row) that the grid can ask for
TileKeys(levels) ==
  UNION { { [level |-> levels[n], col |-> c, row |-> 0] :
              c \in 0..(tiles_across(levels[n]) - 1) } :
          n \in 1..Len(levels) }

\* _openslide_tiff_read_tile: the raw pixels of the tile, padding included
tiff_read_tile(key) ==
  [i \in 1..tile_w(key.level) |->
     100 * (key.level.dir + 1) + 10 * key.col + i]

\* _openslide_tiff_clip_tile: pixels beyond the level's width become
\* transparent
tiff_clip_tile(key, data) ==
  [i \in DOMAIN data |->
     IF key.col * tile_w(key.level) + (i - 1) < key.level.image_w
     THEN data[i] ELSE 0]

\* g_slice_alloc(tw * th * 4): a buffer that holds nothing yet
slice_alloc(key) ==
  [key |-> key, data |-> <<>>, refs |-> 0, freed |-> FALSE,
   decoded |-> FALSE, clipped |-> FALSE]

\* the handle the pool gives a caller: one that no other caller holds
tiffcache_handle(held) ==
  CHOOSE h \in 1..Cardinality(Threads) :
    h \notin held /\ \A g \in 1..Cardinality(Threads) : g \notin held => h <= g

\* a failed decode is put in the cache like a good one
read_tile_caches_failure(at, ok, hit) ==
  CASE at = "cache_get" -> IF hit THEN "paint" ELSE "decode"
    [] at = "decode" -> IF ok THEN "clip" ELSE "cache_put"
    [] at = "clip" -> IF ok THEN "cache_put" ELSE "free"
    [] at = "cache_put" -> "paint"
    [] at = "paint" -> "unref"
    [] at = "unref" -> "return_true"
    [] at = "free" -> "return_false"

\* the entry is not released after a cache hit
read_tile_no_unref_on_hit(at, ok, hit) ==
  CASE at = "cache_get" -> IF hit THEN "paint" ELSE "decode"
    [] at = "decode" -> IF ok THEN "clip" ELSE "free"
    [] at = "clip" -> IF ok THEN "cache_put" ELSE "free"
    [] at = "cache_put" -> "paint"
    [] at = "paint" -> IF hit THEN "return_true" ELSE "unref"
    [] at = "unref" -> "return_true"
    [] at = "free" -> "return_false"

\* the buffer is put in the cache before it is clipped
read_tile_put_before_clip(at, ok, hit) ==
  CASE at = "cache_get" -> IF hit THEN "paint" ELSE "decode"
    [] at = "decode" -> IF ok THEN "cache_put" ELSE "free"
    [] at = "cache_put" -> "clip"
    [] at = "clip" -> IF ok THEN "paint" ELSE "free"
    [] at = "paint" -> "unref"
    [] at = "unref" -> "return_true"
    [] at = "free" -> "return_false"

\* after a miss the buffer is painted raw and clipped afterwards
read_tile_paint_before_clip(at, ok, hit) ==
  CASE at = "cache_get" -> IF hit THEN "paint" ELSE "decode"
    [] at = "decode" -> IF ok THEN "paint" ELSE "free"
    [] at = "paint" -> IF hit THEN "unref" ELSE "clip"
    [] at = "clip" -> IF ok THEN "cache_put" ELSE "free"
    [] at = "cache_put" -> "unref"
    [] at = "unref" -> "return_true"
    [] at = "free" -> "return_false"

\* read_tile, lines 80-135: where control goes from the step `at`, given
\* the step's outcome and whether _openslide_cache_get found the tile
read_tile(at, ok, hit) ==
  CASE at = "cache_get" -> IF hit THEN "paint" ELSE "decode"
    [] at = "decode" -> IF ok THEN "clip" ELSE "free"
    [] at = "clip" -> IF ok THEN "cache_put" ELSE "free"
    [] at = "cache_put" -> "paint"
    [] at = "paint" -> "unref"
    [] at = "unref" -> "return_true"
    [] at = "free" -> "return_false"

\* the handle is not put back when the grid reports a failure
paint_region_keeps_handle_on_failure(at, ok) ==
  CASE at = "tiffcache_get" -> IF ok THEN "cache_get" ELSE "done"
    [] at = "return_true" -> "tiffcache_put"
    [] at = "return_false" -> "done"
    [] at = "tiffcache_put" -> "done"

\* paint_region, lines 137-158: get a handle, let the grid call read_tile,
\* put the handle, return what the grid returned
paint_region(at, ok) ==
  CASE at = "tiffcache_get" -> IF ok THEN "cache_get" ELSE "done"
    [] at = "return_true" -> "tiffcache_put"
    [] at = "return_false" -> "tiffcache_put"
    [] at = "tiffcache_put" -> "done"

\* _openslide_cache_get: the buffer of the entry for the key, if there is one
cache_get(c, key) == IF key \in DOMAIN c THEN Some(c[key]) ELSE None

\* _openslide_cache_put: the entry for the key now holds the buffer
cache_put(c, key, b) ==
  [k \in DOMAIN c \cup {key} |-> IF k = key THEN b ELSE c[k]]

\* the cache drops the entry for the key
cache_evict(c, key) == [k \in DOMAIN c \ {key} |-> c[k]]

\* the handles that callers other than t hold
HeldByOthers(t) ==
  { FieldValue(th[u].tiff) : u \in { v \in Threads \ {t} : th[v].tiff # None } }

\* the thread's record once control has moved to `to`; "done" is the return
Moved(r, to) ==
  IF to = "done"
  THEN [r EXCEPT !.pc = "idle",
                 !.result = IF r.ok THEN "true" ELSE "false"]
  ELSE [r EXCEPT !.pc = to]

\* read_tile leaves the step `at`: r and b are the thread and the buffers
\* after the step; a failing path frees the buffer and returns false, and
\* a return goes back through the grid into paint_region
Leave(t, at, ok, r, b) ==
  LET to == read_tile(at, ok, r.hit)
  IN  IF to = "free"
      THEN /\ bufs' = [b EXCEPT ![FieldValue(r.buf)].freed = TRUE]
           /\ th' = [th EXCEPT ![t] =
                       Moved([r EXCEPT !.ok = FALSE, !.err = TRUE],
                             paint_region(read_tile("free", ok, r.hit), ok))]
      ELSE IF to = "return_true"
      THEN /\ bufs' = b
           /\ th' = [th EXCEPT ![t] =
                       Moved([r EXCEPT !.ok = TRUE], paint_region(to, ok))]
      ELSE /\ bufs' = b
           /\ th' = [th EXCEPT ![t] = Moved(r, to)]

open_vars ==
  <<file, tl, pc, cur, tiff, level_array, heap, osr, associated_images,
    properties, hash_dir, err, calls, added, oob, visited>>

\* line 145: a host thread enters paint_region and asks for a handle
PaintRegion(t) ==
  /\ pc = "returned_true"
  /\ th[t].pc = "idle"
  /\ started < MaxCalls
  /\ \E key \in TileKeys(FieldValue(osr.levels)), ok \in BOOLEAN :
       /\ tc' = tiffcache_get(tc, ok)
       /\ th' = [th EXCEPT ![t] =
                   Moved([IdleThread EXCEPT
                            !.id = started + 1,
                            !.key = Some(key),
                            !.tiff = IF ok
                                     THEN Some(tiffcache_handle(HeldByOthers(t)))
                                     ELSE None,
                            !.got = IF ok THEN 1 ELSE 0,
                            !.err = ~ok],
                         paint_region("tiffcache_get", ok))]
  /\ started' = started + 1
  /\ UNCHANGED <<open_vars, det, tile_cache, bufs, painted>>

\* lines 94-99: look the tile up; on a miss allocate a buffer for it
CacheGet(t) ==
  /\ th[t].pc = "cache_get"
  /\ LET found == cache_get(tile_cache, FieldValue(th[t].key))
         hit == found # None
         b == IF hit THEN FieldValue(found) ELSE th[t].id
         r == [th[t] EXCEPT !.hit = hit, !.buf = Some(b),
                            !.acquired = IF hit THEN @ + 1 ELSE @]
     IN  Leave(t, "cache_get", hit, r,
               IF hit THEN [bufs EXCEPT ![b].refs = @ + 1]
               ELSE [i \in DOMAIN bufs \cup {b} |->
                       IF i = b THEN slice_alloc(FieldValue(th[t].key))
                       ELSE bufs[i]])
  /\ UNCHANGED <<open_vars, tc, det, tile_cache, started, painted>>

\* lines 101-106: decode the tile into the buffer
Decode(t) ==
  /\ th[t].pc = "decode"
  /\ \E ok \in BOOLEAN :
       LET b == FieldValue(th[t].buf)
       IN  Leave(t, "decode", ok, [th[t] EXCEPT !.decodes = @ + 1],
                 IF ok
                 THEN [bufs EXCEPT ![b].data = tiff_read_tile(bufs[b].key),
                                   ![b].decoded = TRUE]
                 ELSE bufs)
  /\ UNCHANGED <<open_vars, tc, det, tile_cache, started, painted>>

\* lines 109-114: clip the buffer at the level's edge
Clip(t) ==
  /\ th[t].pc = "clip"
  /\ \E ok \in BOOLEAN :
       LET b == FieldValue(th[t].buf)
       IN  Leave(t, "clip", ok, [th[t] EXCEPT !.clips = @ + 1],
                 IF ok
                 THEN [bufs EXCEPT ![b].data =
                                     tiff_clip_tile(bufs[b].key, bufs[b].data),
                                   ![b].clipped = TRUE]
                 ELSE bufs)
  /\ UNCHANGED <<open_vars, tc, det, tile_cache, started, painted>>

\* lines 117-119: put the buffer in the cache, which hands back an entry
CachePut(t) ==
  /\ th[t].pc = "cache_put"
  /\ LET b == FieldValue(th[t].buf)
     IN  /\ tile_cache' = cache_put(tile_cache, FieldValue(th[t].key), b)
         /\ Leave(t, "cache_put", TRUE, [th[t] EXCEPT !.acquired = @ + 1],
                  [bufs EXCEPT ![b].refs = @ + 1])
  /\ UNCHANGED <<open_vars, tc, det, started, painted>>

\* lines 123-129: draw the buffer
Paint(t) ==
  /\ th[t].pc = "paint"
  /\ LET b == FieldValue(th[t].buf)
     IN  painted' = painted \cup
           { [id |-> th[t].id, key |-> FieldValue(th[t].key), buf |-> b,
              hit |-> th[t].hit, data |-> bufs[b].data,
              decoded |-> bufs[b].decoded, clipped |-> bufs[b].clipped,
              freed |-> bufs[b].freed] }
  /\ Leave(t, "paint", TRUE, th[t], bufs)
  /\ UNCHANGED <<open_vars, tc, det, tile_cache, started>>

\* line 132: release the cache entry
Unref(t) ==
  /\ th[t].pc = "unref"
  /\ Leave(t, "unref", TRUE, [th[t] EXCEPT !.released = @ + 1],
           [bufs EXCEPT ![FieldValue(th[t].buf)].refs = @ - 1])
  /\ UNCHANGED <<open_vars, tc, det, tile_cache, started, painted>>

\* lines 155-157: put the handle back and return the grid's result
TiffcachePut(t) ==
  /\ th[t].pc = "tiffcache_put"
  /\ tc' = tiffcache_put(tc, th[t].tiff)
  /\ th' = [th EXCEPT ![t] =
              Moved([th[t] EXCEPT !.tiff = None, !.put = @ + 1],
                    paint_region("tiffcache_put", TRUE))]
  /\ UNCHANGED <<open_vars, det, tile_cache, bufs, started, painted>>

\* the cache makes room: the entry of a key is dropped
Evict ==
  /\ \E key \in DOMAIN tile_cache : tile_cache' = cache_evict(tile_cache, key)
  /\ UNCHANGED <<open_vars, tc, det, bufs, th, started, painted>>

\* the files that are opened and then painted: one full tile on level 0,
\* then either an edge tile on level 1 or a directory whose codec is
\* missing; or a single directory that yields no level
PaintFiles ==
  { f \in Files :
      \/ /\ Len(f) = 2
         /\ f[1] = Dir(TRUE, Some(0), Some(2), Some(1), None, None, Some(7),
                       TRUE, TRUE)
         /\ f[2] \in { Dir(TRUE, Some(0), Some(1), Some(1), None, None, c,
                           TRUE, TRUE) : c \in {Some(7), Some(34712)} }
      \/ /\ Len(f) = 1
         /\ f[1] = Dir(TRUE, None, Some(1), Some(1), None, None, Some(7),
                       TRUE, TRUE) }

InitPaint ==
  /\ file \in PaintFiles
  /\ BeforeOpen
  /\ NotDetected
  /\ NotPainted

NextPaint ==
  \/ Open
  \/ ScanDirectory
  \/ Finish
  \/ \E t \in Threads : PaintRegion(t)
  \/ \E t \in Threads : CacheGet(t)
  \/ \E t \in Threads : Decode(t)
  \/ \E t \in Threads : Clip(t)
  \/ \E t \in Threads : CachePut(t)
  \/ \E t \in Threads : Paint(t)
  \/ \E t \in Threads : Unref(t)
  \/ \E t \in Threads : TiffcachePut(t)
  \/ Evict

SpecPaint == InitPaint /\ [][NextPaint]_vars

(***************************************************************************)
(* Vocabulary of the properties.                                           *)
(***************************************************************************)
Ended == pc \in {"returned_true", "returned_false", "crashed"}
Success == pc = "returned_true"
Failure == pc = "returned_false"

DirNumbers == 0..(Len(file) - 1)
Tags(dir) == file[dir + 1]
Visited(dir) == \E n \in 1..Len(visited) : visited[n] = dir
BecameLevel(dir) == \E k \in 1..Len(added) : added[k].dir = dir

\* huron_open went to FAIL in the iteration on directory dir
FailedAt(dir) ==
  /\ Failure
  /\ hash_dir = None
  /\ visited # <<>>
  /\ visited[Len(visited)] = dir

\* the names passed to the registrar for directory dir
NamesFor(dir) == { calls[n][1] : n \in { m \in 1..Len(calls) : calls[m][2] = dir } }
CallsFor(dir) == Cardinality({ m \in 1..Len(calls) : calls[m][2] = dir })

OsrUntouched ==
  osr = [levels |-> None, level_count |-> 0, data |-> None, ops |-> None]

(***************************************************************************)
(* C1: when the scan registers no pyramid level, huron_open returns false  *)
(* with an error set; it never returns success with an empty level list    *)
(* and never reads an element of the empty level array.                    *)
(***************************************************************************)
C1_ZeroLevelsFail ==
  (Ended /\ added = <<>>) => (Failure /\ err /\ ~oob)

(***************************************************************************)
(* C2: after a successful open the widths of osr->levels never increase    *)
(* from one level to the next, and level 0 is at least as wide as every    *)
(* level appended during the scan, whatever the order in the file.         *)
(***************************************************************************)
C2_LevelsSortedByWidth ==
  Success =>
    LET levels == FieldValue(osr.levels)
    IN  /\ \A i \in 1..(Len(levels) - 1) :
             levels[i].image_w >= levels[i + 1].image_w
        /\ \A k \in 1..Len(added) :
             /\ levels # <<>>
             /\ levels[1].image_w >= added[k].image_w

\* three levels whose file order is not the width order
C2_Witness ==
  /\ Success
  /\ Len(added) = 3
  /\ added[1].image_w < added[2].image_w
  /\ added[3].image_w < added[2].image_w

(***************************************************************************)
(* C3 as stated: every tiled directory the scan runs on becomes a level or *)
(* makes the open fail, and after a successful open the number of levels   *)
(* is the number of tiled directories of the file.                         *)
(***************************************************************************)
C3_EveryTiledDirectory ==
  /\ \A dir \in DirNumbers :
       (Visited(dir) /\ Tags(dir).tiled) => (BecameLevel(dir) \/ FailedAt(dir))
  /\ Success =>
       osr.level_count = Cardinality({ dir \in DirNumbers : Tags(dir).tiled })

(***************************************************************************)
(* C3 amended: every tiled directory that carries a subfile-type tag       *)
(* becomes a level or makes the open fail, and after a successful open the *)
(* number of levels is the number of tiled directories that carry a        *)
(* subfile-type tag; a tiled directory without the tag is passed over.     *)
(***************************************************************************)
C3_EveryTiledDirectoryWithSubfiletype ==
  /\ \A dir \in DirNumbers :
       (Visited(dir) /\ Tags(dir).tiled) =>
         IF Tags(dir).subfiletype # None
         THEN BecameLevel(dir) \/ FailedAt(dir)
         ELSE ~BecameLevel(dir) /\ ~FailedAt(dir)
  /\ Success =>
       osr.level_count =
         Cardinality({ dir \in DirNumbers :
                         Tags(dir).tiled /\ Tags(dir).subfiletype # None })

\* a successful open of two levels and one tiled directory without the tag
C3_Witness ==
  /\ Success
  /\ osr.level_count = 2
  /\ \E dir \in DirNumbers :
       Tags(dir).tiled /\ Tags(dir).subfiletype = None

(***************************************************************************)
(* The rules of the claims on associated images, stated on the tags.       *)
(***************************************************************************)
\* a non-tiled directory with rows-per-strip 1, positive width and height
\* and a description tag
ImageCandidate(dir) ==
  LET d == Tags(dir)
  IN  /\ ~d.tiled
      /\ d.rowsperstrip = Some(1)
      /\ d.imagewidth # None /\ FieldValue(d.imagewidth) > 0
      /\ d.imagelength # None /\ FieldValue(d.imagelength) > 0
      /\ d.imagedescription # None

BeginsWith(dir, word) ==
  LET text == g_strstrip(FieldValue(Tags(dir).imagedescription))
  IN  Len(text) >= Len(word) /\ \A n \in 1..Len(word) : text[n] = word[n]

\* thumbnail, else label, else macro, else nothing
RuleNames(dir) ==
  IF dir = 1 /\ Tags(dir).subfiletype = Some(0) THEN {"thumbnail"}
  ELSE IF BeginsWith(dir, <<"l", "a", "b", "e", "l">>) THEN {"label"}
  ELSE IF BeginsWith(dir, <<"m", "a", "c", "r", "o">>) THEN {"macro"}
  ELSE {}

(***************************************************************************)
(* C4 as stated: for every non-tiled directory with rows-per-strip 1,      *)
(* positive width and height and a description, the scan makes at most one *)
(* registration, named by the rules thumbnail (directory 1, subfile-type   *)
(* 0), else label, else macro, else none.                                  *)
(***************************************************************************)
C4_RulesInOrder ==
  \A dir \in DirNumbers :
    (Visited(dir) /\ ImageCandidate(dir)) =>
      /\ CallsFor(dir) <= 1
      /\ NamesFor(dir) = RuleNames(dir)

(***************************************************************************)
(* C4 amended: the same, for the directories that also carry a             *)
(* subfile-type tag; without that tag nothing is registered.               *)
(***************************************************************************)
C4_RulesInOrderWithSubfiletype ==
  \A dir \in DirNumbers :
    (Visited(dir) /\ ImageCandidate(dir)) =>
      /\ CallsFor(dir) <= 1
      /\ NamesFor(dir) =
           IF Tags(dir).subfiletype # None THEN RuleNames(dir) ELSE {}

\* directory 1, subfile-type 0, description beginning with label:
\* registered as thumbnail
C4_Witness ==
  /\ Len(file) >= 2
  /\ ImageCandidate(1)
  /\ Tags(1).subfiletype = Some(0)
  /\ BeginsWith(1, <<"l", "a", "b", "e", "l">>)
  /\ NamesFor(1) = {"thumbnail"}
  /\ associated_images = [k \in {"thumbnail"} |-> 1]

(***************************************************************************)
(* C5 as stated: a non-tiled directory without a description tag is        *)
(* skipped: nothing is registered for it, the open does not fail on it,    *)
(* and the scan goes on to the next directory.                             *)
(***************************************************************************)
Skipped(dir) ==
  /\ CallsFor(dir) = 0
  /\ ~BecameLevel(dir)
  /\ ~FailedAt(dir)
  /\ dir + 1 < Len(file) => (pc = "scan" /\ cur = dir + 1) \/ Visited(dir + 1)

C5_NoDescriptionSkipped ==
  \A dir \in DirNumbers :
    (Visited(dir) /\ ~Tags(dir).tiled /\ Tags(dir).imagedescription = None)
      => Skipped(dir)

(***************************************************************************)
(* C5 amended: a non-tiled directory without a description tag that        *)
(* carries the width, height and rows-per-strip tags is skipped.           *)
(***************************************************************************)
C5_NoDescriptionSkippedWithGeometryTags ==
  \A dir \in DirNumbers :
    ( /\ Visited(dir)
      /\ ~Tags(dir).tiled
      /\ Tags(dir).imagedescription = None
      /\ Tags(dir).imagewidth # None
      /\ Tags(dir).imagelength # None
      /\ Tags(dir).rowsperstrip # None ) => Skipped(dir)

\* directory 1 with subfile-type 0 and no description, passed over, and
\* the scan ran on directory 2 after it
C5_Witness ==
  /\ Len(file) = 3
  /\ ~Tags(1).tiled
  /\ Tags(1).subfiletype = Some(0)
  /\ Tags(1).rowsperstrip = Some(1)
  /\ Tags(1).imagedescription = None
  /\ Visited(2)
  /\ calls = <<>>

(***************************************************************************)
(* C6 as stated: if a tiled directory of the file has no compression tag   *)
(* or a compression without a configured codec, the open never succeeds    *)
(* and ends in failure with an error, and the scan, when it runs on that   *)
(* directory, fails there instead of passing over it.                      *)
(***************************************************************************)
Undecodable(dir) ==
  /\ Tags(dir).tiled
  /\ \/ Tags(dir).compression = None
     \/ FieldValue(Tags(dir).compression) \notin ConfiguredCodecs

C6_UndecodableTiledFails ==
  \A dir \in DirNumbers :
    Undecodable(dir) =>
      /\ Visited(dir) => FailedAt(dir)
      /\ Ended => (Failure /\ err)

(***************************************************************************)
(* C6 amended: the same for a tiled directory that carries a subfile-type  *)
(* tag; without the tag the directory is passed over before its            *)
(* compression is looked at.                                               *)
(***************************************************************************)
C6_UndecodableTiledWithSubfiletypeFails ==
  \A dir \in DirNumbers :
    (Undecodable(dir) /\ Tags(dir).subfiletype # None) =>
      /\ Visited(dir) => FailedAt(dir)
      /\ Ended => (Failure /\ err)

\* a level accepted from directory 0, the failure on directory 1, and a
\* valid tiled directory 2 after it that is never reached
C6_Witness ==
  /\ Len(file) = 3
  /\ BecameLevel(0)
  /\ Undecodable(1)
  /\ Tags(1).subfiletype # None
  /\ FailedAt(1)
  /\ Tags(2).tiled /\ ~Undecodable(2) /\ Tags(2).initOk
  /\ Tags(2).subfiletype # None

(***************************************************************************)
(* C7: after a failed open nothing built by it remains: no level or grid   *)
(* allocation, the handle returned and the handle cache destroyed, the     *)
(* levels, level_count, data and ops of osr as before the call, and no     *)
(* associated image registered on osr.                                     *)
(***************************************************************************)
C7_FailureLeavesNothing ==
  Failure =>
    /\ heap = {}
    /\ tiff = None
    /\ tc.out = 0
    /\ tc.state = "destroyed"
    /\ OsrUntouched
    /\ associated_images = EmptyTable

(***************************************************************************)
(* C8: on every successful open the directory given to the hash/property   *)
(* extractor is the directory of the last level of the sorted list, a      *)
(* level of minimum width among the levels appended during the scan.       *)
(***************************************************************************)
C8_HashDirIsCoarsestLevel ==
  Success =>
    LET levels == FieldValue(osr.levels)
    IN  /\ levels # <<>>
        /\ hash_dir = Some(levels[Len(levels)].dir)
        /\ \A k \in 1..Len(added) :
             levels[Len(levels)].image_w <= added[k].image_w

(***************************************************************************)
(* The micron-per-pixel value that the resolution tags of a directory of   *)
(* tl stand for: 10000 / X-resolution when the unit is centimeters.        *)
(***************************************************************************)
MppOfDirectory(dir) ==
  LET t == FieldValue(tl)[dir]
  IN  IF /\ t.RESOLUTIONUNIT = Value(RESUNIT_CENTIMETER)
         /\ t.XRESOLUTION.err = "none"
      THEN Some(10000 \div t.XRESOLUTION.val)
      ELSE None

PublishedMpp ==
  IF OPENSLIDE_PROPERTY_NAME_MPP_X \in DOMAIN properties
  THEN Some(properties[OPENSLIDE_PROPERTY_NAME_MPP_X])
  ELSE None

Publishes(dir) ==
  LET t == FieldValue(tl)[dir]
  IN  /\ t.RESOLUTIONUNIT.err = "none"
      /\ t.RESOLUTIONUNIT.val = RESUNIT_CENTIMETER
      /\ t.XRESOLUTION.err = "none"

C10_PublishedIffCentimeters ==
  Success =>
    /\ ~err
    /\ IF Publishes(0)
       THEN DOMAIN properties = {OPENSLIDE_PROPERTY_NAME_MPP_X}
       ELSE properties = EmptyTable
    /\ \A dir \in DirNumbers :
         LET table == huron_set_resolution_prop(EmptyTable, FieldValue(tl),
                        dir, "XRESOLUTION", OPENSLIDE_PROPERTY_NAME_MPP_X)
         IN  IF Publishes(dir)
             THEN DOMAIN table = {OPENSLIDE_PROPERTY_NAME_MPP_X}
             ELSE table = EmptyTable

\* unit tag absent, resolution 500: nothing published
C10_Witness ==
  /\ Success
  /\ FieldValue(tl)[0] = TlTags(NoValue, Value(500))
  /\ properties = EmptyTable
  /\ ~err

(***************************************************************************)
(* C12: every level is backed by a tiled directory: each level appended    *)
(* during the scan and each level of osr->levels after a successful open   *)
(* comes from a tiled directory, and a non-tiled directory never adds a    *)
(* level, whatever its tags.                                               *)
(***************************************************************************)
C12_LevelsAreTiled ==
  /\ \A k \in 1..Len(added) : Tags(added[k].dir).tiled
  /\ \A dir \in DirNumbers :
       ~Tags(dir).tiled => (~BecameLevel(dir) /\ <<"level", dir>> \notin heap)
  /\ Success =>
       \A i \in 1..Len(FieldValue(osr.levels)) :
         Tags(FieldValue(osr.levels)[i].dir).tiled

\* a successful open of a file with a non-tiled directory between two
\* tiled ones: two levels
C12_Witness ==
  /\ Success
  /\ Len(file) = 3
  /\ ~Tags(1).tiled
  /\ Tags(1).subfiletype # None
  /\ GoodGeometry(Tags(1))
  /\ osr.level_count = 2

(***************************************************************************)
(* C13 as stated: a non-tiled directory whose rows-per-strip is not 1 or   *)
(* absent, or whose width or height is not positive or absent, is skipped  *)
(* and never makes the open fail.                                          *)
(***************************************************************************)
Absent(dir) ==
  \/ Tags(dir).imagewidth = None
  \/ Tags(dir).imagelength = None
  \/ Tags(dir).rowsperstrip = None

Irrelevant(dir) ==
  /\ ~Absent(dir)
  /\ \/ FieldValue(Tags(dir).rowsperstrip) # 1
     \/ FieldValue(Tags(dir).imagewidth) <= 0
     \/ FieldValue(Tags(dir).imagelength) <= 0

C13_MalformedNonTiledSkipped ==
  \A dir \in DirNumbers :
    (Visited(dir) /\ ~Tags(dir).tiled /\ (Absent(dir) \/ Irrelevant(dir)))
      => Skipped(dir)

(***************************************************************************)
(* C13 amended: a non-tiled directory that carries the width, height and   *)
(* rows-per-strip tags and has rows-per-strip other than 1 or a width or   *)
(* height of 0 is skipped; one that lacks one of the three tags is skipped *)
(* when it has no subfile-type tag and makes the open fail when it has.    *)
(***************************************************************************)
C13_MalformedNonTiledSkippedOrRequiredTagMissing ==
  \A dir \in DirNumbers :
    (Visited(dir) /\ ~Tags(dir).tiled) =>
      /\ Irrelevant(dir) => Skipped(dir)
      /\ (Absent(dir) /\ Tags(dir).subfiletype = None) => Skipped(dir)
      /\ (Absent(dir) /\ Tags(dir).subfiletype # None) =>
           (FailedAt(dir) /\ err /\ CallsFor(dir) = 0)

\* directory 1 has rows-per-strip 2 and a label description: passed over,
\* the scan ran on directory 2 and the open succeeded
C13_Witness ==
  /\ Success
  /\ Len(file) = 3
  /\ ~Tags(1).tiled
  /\ Tags(1).rowsperstrip = Some(2)
  /\ Tags(1).imagedescription # None
  /\ Visited(2)
  /\ calls = <<>>

(***************************************************************************)
(* C20: the scan loop runs on the directories in file order, each once:    *)
(* the directories visited so far are 0, 1, 2, ... without gap or repeat,  *)
(* also after a skipped directory; while scanning the current directory is *)
(* the next unvisited one; the loop ends after the last directory or at    *)
(* the first failure, on which no later directory is visited.              *)
(***************************************************************************)
C20_EveryDirectoryOnceInOrder ==
  /\ \A n \in 1..Len(visited) : visited[n] = n - 1
  /\ Len(visited) <= Len(file)
  /\ pc = "scan" => (cur = Len(visited) /\ cur < Len(file))
  /\ pc \in {"finish", "returned_true", "crashed"} =>
       Len(visited) = Len(file)
  /\ (Failure /\ hash_dir # None) => Len(visited) = Len(file)
  /\ (Failure /\ hash_dir = None /\ visited # <<>>) =>
       loop_body(Tags(Len(visited) - 1), Len(visited) - 1).next = "FAIL"

\* two skipped directories, then the last directory, then the loop's end
C20_Witness ==
  /\ pc = "finish"
  /\ Len(file) = 3
  /\ visited = <<0, 1, 2>>
  /\ Tags(0).subfiletype = None
  /\ ~Tags(1).tiled /\ Tags(1).imagedescription = None
  /\ Tags(1).subfiletype # None

\* C11: huron_detect returns true exactly when a TIFF-like structure is
\* present and its directory 0 is tiled, whatever the Make and Model tags
\* are; a refusal sets the error, and every accepted file has a tiled
\* directory 0.
C11_DetectIsTiledTest ==
  det.result # "none" =>
    /\ det.result = "true" <=> (det.tl # None /\ FieldValue(det.tl).tiled)
    /\ det.result = "false" <=> det.err
    /\ \A other \in DetectInputs :
         (/\ det.tl # None
          /\ other # None
          /\ FieldValue(other).tiled = FieldValue(det.tl).tiled)
         => huron_detect(other) = huron_detect(det.tl)

\* a tiled file whose Make is not Huron's and which has no Model is accepted
C11_Witness ==
  /\ det.result = "true"
  /\ det.tl # None
  /\ FieldValue(det.tl).make = Some(<<"A">>)
  /\ FieldValue(det.tl).model = None

(***************************************************************************)
(* Vocabulary of the tile properties.                                      *)
(***************************************************************************)
\* read_tile has returned in thread t's current or last paint_region call
ReadTileReturned(t) ==
  /\ th[t].pc \in {"tiffcache_put", "idle"}
  /\ th[t].got = 1

\* thread t is between its cache miss and its cache put
InMiss(t) == th[t].pc \in {"decode", "clip", "cache_put"} /\ ~th[t].hit

Cached(b) == \E k \in DOMAIN tile_cache : tile_cache[k] = b

\* the tile reaches beyond the level's width
EdgeTile(key) ==
  (key.col + 1) * tile_w(key.level) > key.level.image_w

FinishedTile(key) == tiff_clip_tile(key, tiff_read_tile(key))

\* C14: when read_tile misses the cache and the decode or the clip fails,
\* it returns false with the error set and the buffer freed, and the cache
\* holds no entry made from that buffer: every cached buffer was decoded
\* and clipped with success and is not freed, so what a later call for the
\* key finds is never a failure.
C14_FailuresAreNotCached ==
  /\ \A k \in DOMAIN tile_cache :
       /\ bufs[tile_cache[k]].key = k
       /\ bufs[tile_cache[k]].decoded
       /\ bufs[tile_cache[k]].clipped
       /\ ~bufs[tile_cache[k]].freed
  /\ \A b \in DOMAIN bufs : bufs[b].freed => (~Cached(b) /\ bufs[b].refs = 0)
  /\ \A t \in Threads :
       (ReadTileReturned(t) /\ ~th[t].ok) =>
         /\ th[t].err
         /\ ~th[t].hit
         /\ th[t].buf = Some(th[t].id)
         /\ bufs[th[t].id].freed
         /\ ~(bufs[th[t].id].decoded /\ bufs[th[t].id].clipped)
         /\ th[t].pc = "idle" => th[t].result = "false"
  /\ \A t \in Threads :
       (th[t].hit /\ th[t].pc # "idle") =>
         /\ ~bufs[FieldValue(th[t].buf)].freed
         /\ bufs[FieldValue(th[t].buf)].decoded

\* a thread's first call failed in the decode; its second call, for the
\* same key, has missed again and is about to decode
C14_Witness ==
  \E t \in Threads :
    /\ \A u \in Threads \ {t} : th[u] = IdleThread
    /\ th[t].id = 2
    /\ th[t].pc = "decode"
    /\ 1 \in DOMAIN bufs
    /\ bufs[1].freed
    /\ ~bufs[1].decoded
    /\ Some(bufs[1].key) = th[t].key

\* C15: in every call of read_tile the references acquired (by a cache hit
\* or by the put after a miss) equal the references released when the call
\* returns: one of each on success, none of either on a failing path; no
\* call releases more than it acquired, and an entry's reference count is
\* the number of calls that hold it.
C15_ReferencesBalanced ==
  /\ \A t \in Threads :
       /\ th[t].released <= th[t].acquired
       /\ th[t].acquired <= 1
       /\ ReadTileReturned(t) =>
            /\ th[t].ok => (th[t].acquired = 1 /\ th[t].released = 1)
            /\ ~th[t].ok => (th[t].acquired = 0 /\ th[t].released = 0)
  /\ \A b \in DOMAIN bufs :
       bufs[b].refs =
         Cardinality({ t \in Threads :
                         /\ th[t].buf = Some(b)
                         /\ th[t].acquired = 1
                         /\ th[t].released = 0 })

\* one call has returned true after a miss and a put, another has returned
\* true after a hit on that entry, and the entry is held by nobody
C15_Witness ==
  \E t, u \in Threads :
    /\ th[t].pc = "idle"
    /\ th[t].result = "true"
    /\ th[t].hit
    /\ th[t].acquired = 1
    /\ th[t].released = 1
    /\ th[u].pc = "idle"
    /\ th[u].result = "true"
    /\ ~th[u].hit
    /\ th[u].released = 1
    /\ th[t].buf = th[u].buf
    /\ bufs[FieldValue(th[t].buf)].refs = 0

\* C16: after a miss read_tile decodes, clips, puts and paints in that
\* order: a buffer is put in the cache or painted only after its clip has
\* succeeded, so every cached and every painted buffer holds the finished
\* (edge-clipped) tile, and a call that hit the cache decodes and clips
\* nothing.
C16_DecodeClipPutPaint ==
  /\ \A k \in DOMAIN tile_cache :
       /\ bufs[tile_cache[k]].clipped
       /\ bufs[tile_cache[k]].data = FinishedTile(k)
  /\ \A e \in painted :
       /\ e.decoded
       /\ e.clipped
       /\ e.data = FinishedTile(e.key)
  /\ \A t \in Threads :
       /\ th[t].hit => (th[t].decodes = 0 /\ th[t].clips = 0)
       /\ th[t].pc = "clip" => (th[t].decodes = 1 /\ th[t].acquired = 0)
       /\ th[t].pc = "cache_put" =>
            (th[t].clips = 1 /\ bufs[FieldValue(th[t].buf)].clipped)
       /\ (th[t].pc = "paint" /\ ~th[t].hit) =>
            (th[t].clips = 1 /\ th[t].acquired = 1)

\* an edge tile is in the cache, clipped, and a call that hit it is about
\* to paint it
C16_Witness ==
  \E t \in Threads :
    /\ th[t].pc = "paint"
    /\ th[t].hit
    /\ EdgeTile(FieldValue(th[t].key))
    /\ Cached(FieldValue(th[t].buf))
    /\ \E i \in DOMAIN bufs[FieldValue(th[t].buf)].data :
         bufs[FieldValue(th[t].buf)].data[i] = 0

\* C17: a call that hits the cache paints the buffer that another call,
\* which missed before it, decoded and put there for the same key, with the
\* contents that call painted (or is about to paint): all paints of one
\* buffer show the same contents.
C17_HitPaintsWhatMissPainted ==
  \A e \in painted :
    e.hit =>
      /\ e.buf # e.id
      /\ bufs[e.buf].key = e.key
      /\ \A m \in painted : m.buf = e.buf => m.data = e.data
      /\ \/ \E m \in painted : m.id = e.buf /\ ~m.hit /\ m.data = e.data
         \/ \E t \in Threads :
              /\ th[t].id = e.buf
              /\ th[t].pc = "paint"
              /\ bufs[e.buf].data = e.data

\* an edge tile was painted by the call that missed and then by a call
\* that hit
C17_Witness ==
  \E e, m \in painted :
    /\ e.hit
    /\ ~m.hit
    /\ m.id = e.buf
    /\ m.buf = e.buf
    /\ EdgeTile(e.key)
    /\ m.data = e.data

C19_HandlesPutBackOnce ==
  /\ tc.out = (IF tiff # None THEN 1 ELSE 0)
               + Cardinality({ t \in Threads : th[t].tiff # None })
  /\ pc \in {"returned_true", "returned_false"} => tiff = None
  /\ pc \in {"scan", "finish"} => tiff # None
  /\ \A t \in Threads :
       /\ th[t].put <= th[t].got
       /\ th[t].pc = "idle" => (th[t].tiff = None /\ th[t].put = th[t].got)
       /\ th[t].pc # "idle" =>
            (th[t].tiff # None /\ th[t].got = 1 /\ th[t].put = 0)
       /\ (th[t].result = "false" /\ th[t].pc = "idle" /\ ~th[t].ok
             /\ th[t].decodes = 0) => th[t].got = 0
  /\ \A t, u \in Threads :
       (t # u /\ th[t].tiff # None) => th[t].tiff # th[u].tiff

\* huron_open has put its handle back, one paint_region call has failed in
\* read_tile and put its handle back, and another holds a handle
C19_Witness ==
  /\ pc = "returned_true"
  /\ tiff = None
  /\ \E t, u \in Threads :
       /\ th[t].pc = "idle"
       /\ th[t].result = "false"
       /\ th[t].got = 1
       /\ th[t].put = 1
       /\ th[u].tiff # None

====
